---- MODULE Spec2Model ----
(***************************************************************************)
(* LargePosition (src/LargeCoordinates.h): a world position kept as an     *)
(* int32 cell index `global` and a float offset `local` per axis.          *)
(*                                                                         *)
(* Numbers.  Every floating-point value is a whole number of "units" of    *)
(* 2^-FracBits world units.  A float is an integer count of units that has *)
(* at most 24 significant bits.  A double is a two-limb number             *)
(* h * Limb + l (0 <= l < Limb) with at most 53 significant bits.  int32_t *)
(* values are plain integers in INT_MIN..INT_MAX.  Every operation of the  *)
(* source that rounds (float cast, double add/subtract) rounds here too,   *)
(* to nearest with ties to even.                                           *)
(*                                                                         *)
(* assert() is modelled as compiled in: a failed assertion aborts the      *)
(* call (pc = "aborted") and `failed` names the assertion.                 *)
(*                                                                         *)
(* Four specifications: Spec (construction and the absolute conversions),  *)
(* SpecRel (to_float3 and the round trip through a reference cell),        *)
(* SpecEq (operator== and operator!=) and SpecMove (the movement loop).    *)
(***************************************************************************)
EXTENDS Integers, Sequences, FiniteSets, TLC

VARIABLES global, local, pc, op, failed, val, origin, local_, ret,
          local_pos, other, eq, eq_rev, ne, prev, movement, moves, settled

\* what the relative conversion, the comparison and the movement loop add
aux == <<local_pos, other, eq, eq_rev, ne, prev, movement, moves, settled>>

vars == <<global, local, pc, op, failed, val, origin, local_, ret,
          local_pos, other, eq, eq_rev, ne, prev, movement, moves, settled>>

(***************************************************************************)
(* Bounds of the model                                                     *)
(***************************************************************************)
FracBits == 16      \* binary digits kept after the point
Near == 1           \* steps taken on either side of each landmark input

(***************************************************************************)
(* Program constants                                                       *)
(***************************************************************************)
INT_MAX == 2147483647
INT_MIN == (-2147483647) - 1
CELL_SIZE == 2048

FloatMantissa == 24
DoubleMantissa == 53
LimbBits == 30

ONE == 2^FracBits                  \* units in one world unit
CellU == CELL_SIZE * ONE           \* units in one cell
Limb == 2^LimbBits                 \* units in one high limb of a double
CellsPerLimb == Limb \div CellU
FBig == Limb                       \* a float too large to matter: saturates

Axes == 1..3

Abs(n) == IF n < 0 THEN -n ELSE n
Sgn(n) == IF n < 0 THEN -1 ELSE 1

RECURSIVE BitLen(_)
BitLen(n) == IF n = 0 THEN 0 ELSE 1 + BitLen(n \div 2)

\* nearest multiple of the power of two s to m >= 0, ties to the even multiple
RoundToSpacing(m, s) ==
    LET q == m \div s
        r == m % s
    IN  IF 2 * r < s THEN q * s
        ELSE IF 2 * r > s THEN (q + 1) * s
        ELSE IF q % 2 = 0 THEN q * s ELSE (q + 1) * s

(***************************************************************************)
(* float: IEEE-754 binary32, round to nearest even                         *)
(***************************************************************************)
FloatSpacing(m) ==
    IF BitLen(m) > FloatMantissa THEN 2^(BitLen(m) - FloatMantissa) ELSE 1

FloatRound(n) ==
    IF Abs(n) >= FBig THEN Sgn(n) * FBig
    ELSE Sgn(n) * RoundToSpacing(Abs(n), FloatSpacing(Abs(n)))

IsFloat(n) == FloatRound(n) = n

\* the floats next to a float n, away from and toward zero
FloatUp(n) == IF n = 0 THEN 1 ELSE n + Sgn(n) * FloatSpacing(Abs(n))
FloatDown(n) == IF n = 0 THEN 0 ELSE n - Sgn(n) * FloatSpacing(Abs(n) - 1)

(***************************************************************************)
(* double: IEEE-754 binary64 as [h, l], value h * Limb + l                 *)
(***************************************************************************)
Dbl(hh, ll) == [h |-> hh + (ll \div Limb), l |-> ll % Limb]

DblZero == [h |-> 0, l |-> 0]

DblLE(a, b) == a.h < b.h \/ (a.h = b.h /\ a.l <= b.l)
DblLT(a, b) == a.h < b.h \/ (a.h = b.h /\ a.l < b.l)

DblNeg(a) == IF a.l = 0 THEN [h |-> -a.h, l |-> 0]
             ELSE [h |-> (-a.h) - 1, l |-> Limb - a.l]

DblIsNeg(a) == a.h < 0

DblSpacing(m) ==
    IF BitLen(m.h) + LimbBits > DoubleMantissa
    THEN 2^(BitLen(m.h) + LimbBits - DoubleMantissa) ELSE 1

\* round a two-limb number to the nearest double
DblRound(a) ==
    LET m == IF DblIsNeg(a) THEN DblNeg(a) ELSE a
        r == Dbl(m.h, RoundToSpacing(m.l, DblSpacing(m)))
    IN  IF DblIsNeg(a) THEN DblNeg(r) ELSE r

IsDouble(a) == DblRound(a) = a

\* a + n for a double a and a float n (converted exactly), rounded
DblAddFloat(a, n) == DblRound(Dbl(a.h, a.l + n))

\* a - b, rounded
DblSub(a, b) == DblRound(Dbl(a.h - b.h, a.l - b.l))

\* g * double(CELL_SIZE) for an int32 g: exact
CellTimesSize(g) == Dbl(g \div CellsPerLimb, (g % CellsPerLimb) * CellU)

\* (float) d
DblToFloat(d) ==
    IF d.h >= 1 THEN FBig
    ELSE IF d.h < -1 THEN -FBig
    ELSE FloatRound(d.h * Limb + d.l)

MIN_COORDINATE == CellTimesSize(INT_MIN)
MAX_COORDINATE == CellTimesSize(INT_MAX)

(***************************************************************************)
(* LargePosition                                                           *)
(***************************************************************************)
Zero3 == [i \in Axes |-> 0]
DblZero3 == [i \in Axes |-> DblZero]
NoRet == <<>>

\* no position held
NoPos == <<>>

\* slip: the range is tested with < and > instead of <= and >=
InRange_Strict(v) == DblLT(MIN_COORDINATE, v) /\ DblLT(v, MAX_COORDINATE)

\* the three range assertions of from_double3, one axis
InRange(v) == DblLE(MIN_COORDINATE, v) /\ DblLE(v, MAX_COORDINATE)

\* slip: floor(q + 0.5) instead of std::round, halfway cases go up
RoundCell_HalfUp(v) ==
    LET f == v.h * CellsPerLimb + (v.l \div CellU)
        r == v.l % CellU
    IN  IF 2 * r >= CellU THEN f + 1 ELSE f

\* slip: the cast without std::round, truncating toward zero
RoundCell_Trunc(v) ==
    LET f == v.h * CellsPerLimb + (v.l \div CellU)
        r == v.l % CellU
    IN  IF f < 0 /\ r > 0 THEN f + 1 ELSE f

\* std::round(v / CELL_SIZE): the division by a power of two is exact,
\* halfway cases round away from zero
RoundCell(v) ==
    LET f == v.h * CellsPerLimb + (v.l \div CellU)
        r == v.l % CellU
    IN  IF f >= 0 THEN (IF 2 * r >= CellU THEN f + 1 ELSE f)
        ELSE (IF 2 * r > CellU THEN f + 1 ELSE f)

\* (int32_t) of a double outside the int32_t range is undefined
CastOverflows(v) ==
    \/ DblLE(Dbl(MAX_COORDINATE.h, MAX_COORDINATE.l + CellU \div 2), v)
    \/ DblLE(v, Dbl(MIN_COORDINATE.h, MIN_COORDINATE.l - CellU \div 2))

CastOutcomes == {INT_MIN, 0, INT_MAX}

Int32OfRound(v) == IF CastOverflows(v) THEN CastOutcomes ELSE {RoundCell(v)}

\* (float)(val - global * double(CELL_SIZE)), one axis
LocalOf(v, g) == DblToFloat(DblSub(v, CellTimesSize(g)))

\* slip: local.z is computed from global.y
from_double3_SlipZ(g0, l0, v) ==
    IF \E i \in Axes : ~InRange(v[i])
    THEN {[global |-> g0, local |-> l0, failed |-> "range"]}
    ELSE {[global |-> g,
           local |-> [i \in Axes |-> LocalOf(v[i], g[IF i = 3 THEN 2 ELSE i])],
           failed |-> IF \E i \in Axes : CastOverflows(v[i])
                      THEN "int32_cast" ELSE "none"] :
            g \in {<<a, b, c>> : a \in Int32OfRound(v[1]),
                                 b \in Int32OfRound(v[2]),
                                 c \in Int32OfRound(v[3])}}

\* slip: the range assertions come after the assignments
from_double3_LateAssert(g0, l0, v) ==
    {[global |-> g,
      local |-> [i \in Axes |-> LocalOf(v[i], g[i])],
      failed |-> IF \E i \in Axes : ~InRange(v[i]) THEN "range"
                 ELSE IF \E i \in Axes : CastOverflows(v[i])
                 THEN "int32_cast" ELSE "none"] :
        g \in {<<a, b, c>> : a \in Int32OfRound(v[1]),
                             b \in Int32OfRound(v[2]),
                             c \in Int32OfRound(v[3])}}

\* from_double3 on a position (g0, l0): the set of possible outcomes
from_double3(g0, l0, v) ==
    IF \E i \in Axes : ~InRange(v[i])
    THEN {[global |-> g0, local |-> l0, failed |-> "range"]}
    ELSE {[global |-> g,
           local |-> [i \in Axes |-> LocalOf(v[i], g[i])],
           failed |-> IF \E i \in Axes : CastOverflows(v[i])
                      THEN "int32_cast" ELSE "none"] :
            g \in {<<a, b, c>> : a \in Int32OfRound(v[1]),
                                 b \in Int32OfRound(v[2]),
                                 c \in Int32OfRound(v[3])}}

\* slip: the z component is computed from global.y
to_double3_SlipZ(g, l) ==
    [i \in Axes |-> DblAddFloat(CellTimesSize(g[IF i = 3 THEN 2 ELSE i]), l[i])]

\* global * double(CELL_SIZE) + local, per axis, in double arithmetic
to_double3(g, l) == [i \in Axes |-> DblAddFloat(CellTimesSize(g[i]), l[i])]

THRESHOLD == (CellU * 3) \div 4     \* CELL_SIZE * 0.75f
MaxOffset == CellU * 3              \* CELL_SIZE * 3.0f

\* slip: world_y is computed from origin.x
WorldOf_SlipY(o, f) ==
    [i \in Axes |-> DblAddFloat(CellTimesSize(o[IF i = 2 THEN 1 ELSE i]), f[i])]

\* world_x, world_y, world_z of from_float3
WorldOf(o, f) == [i \in Axes |-> DblAddFloat(CellTimesSize(o[i]), f[i])]

\* slip: the hysteresis test uses < instead of <=
from_float3_StrictThreshold(g0, l0, o, f) ==
    IF \E i \in Axes : Abs(f[i]) > MaxOffset
    THEN {[global |-> g0, local |-> l0, failed |-> "large_movement"]}
    ELSE IF \A i \in Axes : Abs(f[i]) < THRESHOLD
    THEN {[global |-> o, local |-> f, failed |-> "none"]}
    ELSE from_double3(g0, l0, WorldOf(o, f))

\* slip: the bound assertion uses < instead of <=
from_float3_StrictBound(g0, l0, o, f) ==
    IF \E i \in Axes : Abs(f[i]) >= MaxOffset
    THEN {[global |-> g0, local |-> l0, failed |-> "large_movement"]}
    ELSE IF \A i \in Axes : Abs(f[i]) <= THRESHOLD
    THEN {[global |-> o, local |-> f, failed |-> "none"]}
    ELSE from_double3(g0, l0, WorldOf(o, f))

\* slip: the cell is kept only up to the natural boundary, CELL_SIZE * 0.5f
from_float3_NoHysteresis(g0, l0, o, f) ==
    IF \E i \in Axes : Abs(f[i]) > MaxOffset
    THEN {[global |-> g0, local |-> l0, failed |-> "large_movement"]}
    ELSE IF \A i \in Axes : Abs(f[i]) <= CellU \div 2
    THEN {[global |-> o, local |-> f, failed |-> "none"]}
    ELSE from_double3(g0, l0, WorldOf(o, f))

\* slip: the hysteresis test repeats the bound of the assertion, CELL_SIZE * 3.0f
from_float3_KeepsUpToBound(g0, l0, o, f) ==
    IF \E i \in Axes : Abs(f[i]) > MaxOffset
    THEN {[global |-> g0, local |-> l0, failed |-> "large_movement"]}
    ELSE IF \A i \in Axes : Abs(f[i]) <= MaxOffset
    THEN {[global |-> o, local |-> f, failed |-> "none"]}
    ELSE from_double3(g0, l0, WorldOf(o, f))

\* from_float3 on a position (g0, l0): the set of possible outcomes
from_float3(g0, l0, o, f) ==
    IF \E i \in Axes : Abs(f[i]) > MaxOffset
    THEN {[global |-> g0, local |-> l0, failed |-> "large_movement"]}
    ELSE IF \A i \in Axes : Abs(f[i]) <= THRESHOLD
    THEN {[global |-> o, local |-> f, failed |-> "none"]}
    ELSE from_double3(g0, l0, WorldOf(o, f))

(***************************************************************************)
(* to_float3: the offset of a position from another cell's centre          *)
(***************************************************************************)
\* does the int32_t subtraction a - b leave the int32_t range
SubOverflows(a, b) ==
    \/ a >= 0 /\ b < 0 /\ a > INT_MAX + b
    \/ a < 0 /\ b > 0 /\ a < INT_MIN + b

\* a - b reduced modulo 2^32 into the int32_t range, for an overflowing a - b
WrappedSub(a, b) ==
    IF a >= 0
    THEN ((a - INT_MAX) - 1) - ((b + INT_MAX) + 1)
    ELSE ((a - INT_MIN) + (INT_MAX - b)) + 1

\* int3::operator-, one component.  Signed overflow is undefined: a build
\* either wraps the difference or keeps it in a wider register, and every
\* difference of CellsPerLimb cells or more behaves alike below.
Int32Sub(a, b) ==
    IF SubOverflows(a, b)
    THEN {WrappedSub(a, b), IF a > b THEN INT_MAX ELSE INT_MIN}
    ELSE {a - b}

\* d * CELL_SIZE in float arithmetic, beyond the model's floats at +/- FBig
DTimesCell(d) ==
    IF d >= CellsPerLimb THEN FBig
    ELSE IF d <= -CellsPerLimb THEN -FBig
    ELSE d * CellU

\* float + float (float3::operator+, one component)
FloatAdd(a, b) ==
    IF Abs(b) >= FBig THEN b
    ELSE IF Abs(a) >= FBig THEN a
    ELSE FloatRound(a + b)

\* local_pos of to_float3 for the cell difference d
LocalPos(l, d) == [i \in Axes |-> FloatAdd(l[i], DTimesCell(d[i]))]

\* slip: the z component of the cell difference is taken from d.y
to_float3_SlipZ(g, l, o) ==
    {[local_pos |-> IF \E i \in Axes : Abs(LocalPos(l, d)[i]) > MaxOffset
                    THEN NoRet ELSE LocalPos(l, d),
      failed |-> IF \E i \in Axes : Abs(LocalPos(l, d)[i]) > MaxOffset
                 THEN "distance" ELSE "none"] :
        d \in {<<a, b, b>> : a \in Int32Sub(g[1], o[1]),
                             b \in Int32Sub(g[2], o[2])}}

\* slip: the third assertion tests local_pos.y again
to_float3_UncheckedZ(g, l, o) ==
    {[local_pos |-> IF \E i \in 1..2 : Abs(LocalPos(l, d)[i]) > MaxOffset
                    THEN NoRet ELSE LocalPos(l, d),
      failed |-> IF \E i \in 1..2 : Abs(LocalPos(l, d)[i]) > MaxOffset
                 THEN "distance" ELSE "none"] :
        d \in {<<a, b, c>> : a \in Int32Sub(g[1], o[1]),
                             b \in Int32Sub(g[2], o[2]),
                             c \in Int32Sub(g[3], o[3])}}

\* to_float3 of the position (g, l) for the cell `o`: the set of possible
\* outcomes; a failed assertion returns nothing
to_float3(g, l, o) ==
    {[local_pos |-> IF \E i \in Axes : Abs(LocalPos(l, d)[i]) > MaxOffset
                    THEN NoRet ELSE LocalPos(l, d),
      failed |-> IF \E i \in Axes : Abs(LocalPos(l, d)[i]) > MaxOffset
                 THEN "distance" ELSE "none"] :
        d \in {<<a, b, c>> : a \in Int32Sub(g[1], o[1]),
                             b \in Int32Sub(g[2], o[2]),
                             c \in Int32Sub(g[3], o[3])}}

(***************************************************************************)
(* operator== and operator!=                                               *)
(***************************************************************************)
\* is |int64_t(a) - int64_t(b)| > 3; the 64-bit difference never wraps
FarApart(a, b) ==
    \/ SubOverflows(a, b)
    \/ a - b > 3
    \/ a - b < -3

\* std::abs(a - b) < tolerance for floats a, b and tolerance = 1e-6f
WithinTolerance(a, b) == Abs(FloatRound(a - b)) <= (ONE - 1) \div 1000000

\* the result of the comparison once other.to_float3(global) came out as `out`
CompareLocal(l, out) ==
    IF out.failed # "none" THEN "abort"
    ELSE IF \A i \in Axes : WithinTolerance(l[i], out.local_pos[i]) THEN "true"
    ELSE "false"

\* slip: the cell differences are taken in int32_t, where INT_MAX - INT_MIN
\* overflows
LargeEq_Int32Diff(g, l, og, ol) ==
    UNION {IF \E i \in Axes : d[i] > 3 \/ d[i] < -3
           THEN {"false"}
           ELSE {CompareLocal(l, out) : out \in to_float3(og, ol, g)} :
              d \in {<<a, b, c>> : a \in Int32Sub(g[1], og[1]),
                                   b \in Int32Sub(g[2], og[2]),
                                   c \in Int32Sub(g[3], og[3])}}

\* (g, l) == (og, ol): the set of possible results
LargeEq(g, l, og, ol) ==
    IF \E i \in Axes : FarApart(g[i], og[i])
    THEN {"false"}
    ELSE {CompareLocal(l, out) : out \in to_float3(og, ol, g)}

Negated(r) == IF r = "true" THEN "false" ELSE IF r = "false" THEN "true" ELSE r

\* (g, l) != (og, ol)
LargeNe(g, l, og, ol) == {Negated(r) : r \in LargeEq(g, l, og, ol)}

(***************************************************************************)
(* Inputs: landmark values and their neighbours                            *)
(***************************************************************************)
BigCell == 2^28                    \* a cell where doubles are coarser than floats

CellLandmarks == {INT_MIN, INT_MIN + 1, -1, 0, 1, BigCell, INT_MAX - 1, INT_MAX}

Steps == {k * m : k \in (-Near)..Near, m \in {1, 64}}

\* signed distances from a cell centre
SubOffsets ==
    {s * (b + e) : s \in {-1, 1}, b \in {0, 1000 * ONE, CellU \div 2}, e \in Steps}

FarOut == {[h |-> 2^29, l |-> 0], [h |-> -(2^29), l |-> 0]}

\* world coordinates tried on the axis under study
DoubleInputs ==
    {d \in {Dbl(CellTimesSize(c).h, CellTimesSize(c).l + r) :
                c \in CellLandmarks, r \in SubOffsets} : IsDouble(d)}
        \cup FarOut

W(n) == Dbl(0, n * ONE)            \* the double n, a small whole number

\* world coordinates tried on the other two axes
DoubleCoarse == {DblZero, W(3000), MAX_COORDINATE}

OneStudied(S, C) ==
    {<<a, b, c>> : a \in S, b \in C, c \in C}
        \cup {<<b, a, c>> : a \in S, b \in C, c \in C}
        \cup {<<b, c, a>> : a \in S, b \in C, c \in C}

Double3Examples ==
    { <<W(1000), W(2000), W(3000)>>, <<W(-500), W(-1000), W(-2500)>>,
      <<W(1024), W(1024), W(1024)>>, <<W(-1024), W(-1024), W(-1024)>> }

Double3Inputs == OneStudied(DoubleInputs, DoubleCoarse) \cup Double3Examples

\* inputs of a second call on a position that is already set
Double3Again ==
    Double3Examples \cup {<<W(0), FarOut1, W(0)>> : FarOut1 \in FarOut}

RECURSIVE FloatNear(_, _)
FloatNear(S, k) ==
    IF k = 0 THEN S
    ELSE FloatNear(S \cup {FloatUp(n) : n \in S} \cup {FloatDown(n) : n \in S},
                   k - 1)

FloatLandmarks == {0, CellU \div 2, THRESHOLD, 2100 * ONE, MaxOffset}

\* offsets tried on the axis under study
FloatInputs == {s * n : s \in {-1, 1}, n \in FloatNear(FloatLandmarks, Near)}

\* (origin, offset) pairs tried on the axis under study
RelInputs == CellLandmarks \X FloatInputs

\* (origin, offset) pairs tried on the other two axes
RelCoarse == {<<0, 0>>, <<-1, -(2000 * ONE)>>, <<5, THRESHOLD>>}

Rel3Inputs == OneStudied(RelInputs, RelCoarse)

Rel3Again ==
    { <<<<0, 0>>, <<0, 0>>, <<0, 0>>>>,
      <<<<0, 2100 * ONE>>, <<0, 0>>, <<0, 0>>>>,
      <<<<0, 0>>, <<1, FloatUp(MaxOffset)>>, <<0, 0>>>>,
      <<<<0, 0>>, <<0, 0>>, <<INT_MAX, 2000 * ONE>>>> }

OriginOf(t) == [i \in Axes |-> t[i][1]]
OffsetOf(t) == [i \in Axes |-> t[i][2]]

(***************************************************************************)
(* The state machine: one object `p`, at most two mutating calls           *)
(***************************************************************************)
\* LargePosition(): global(0,0,0), local(0,0,0)
Init ==
    /\ global = Zero3
    /\ local = Zero3
    /\ pc = "new"
    /\ op = "ctor_default"
    /\ failed = "none"
    /\ val = DblZero3
    /\ origin = Zero3
    /\ local_ = Zero3
    /\ ret = NoRet
    /\ local_pos = NoRet
    /\ other = NoPos
    /\ eq = "none"
    /\ eq_rev = "none"
    /\ ne = "none"
    /\ prev = NoPos
    /\ movement = Zero3
    /\ moves = 0
    /\ settled = NoRet

NextPc(f) == IF f # "none" THEN "aborted" ELSE IF pc = "new" THEN "set" ELSE "final"

\* the arguments tried by a call: a wide set on a new object, a few on a set one
Args(first, again) == IF pc = "new" THEN first ELSE IF pc = "set" THEN again ELSE {}

\* p.from_double3(v)
FromDouble3 ==
    \E v \in Args(Double3Inputs, Double3Again) :
        /\ \E r \in from_double3(global, local, v) :
            /\ global' = r.global
            /\ local' = r.local
            /\ failed' = r.failed
            /\ pc' = NextPc(r.failed)
        /\ op' = "from_double3"
        /\ val' = v
        /\ origin' = Zero3
        /\ local_' = Zero3
        /\ ret' = NoRet
        /\ UNCHANGED aux

\* p.from_float3(o, f)
FromFloat3 ==
    \E t \in Args(Rel3Inputs, Rel3Again) :
        /\ \E r \in from_float3(global, local, OriginOf(t), OffsetOf(t)) :
            /\ global' = r.global
            /\ local' = r.local
            /\ failed' = r.failed
            /\ pc' = NextPc(r.failed)
        /\ op' = "from_float3"
        /\ val' = DblZero3
        /\ origin' = OriginOf(t)
        /\ local_' = OffsetOf(t)
        /\ ret' = NoRet
        /\ UNCHANGED aux

\* explicit LargePosition(const double3& val) { from_double3(val); }
CtorDouble3 ==
    /\ pc = "new"
    /\ \E v \in Double3Inputs :
        /\ \E r \in from_double3(Zero3, Zero3, v) :
            /\ global' = r.global
            /\ local' = r.local
            /\ failed' = r.failed
            /\ pc' = NextPc(r.failed)
        /\ val' = v
    /\ op' = "ctor_double3"
    /\ origin' = Zero3
    /\ local_' = Zero3
    /\ ret' = NoRet
    /\ UNCHANGED aux

\* slip: the constructor initialises the members from its arguments
\*     LargePosition(global_, local_) : global(global_), local(local_) {}
CtorCellOffset_Verbatim ==
    /\ pc = "new"
    /\ \E t \in Rel3Inputs :
        /\ global' = OriginOf(t)
        /\ local' = OffsetOf(t)
        /\ origin' = OriginOf(t)
        /\ local_' = OffsetOf(t)
    /\ failed' = "none"
    /\ pc' = "set"
    /\ op' = "ctor_cell_offset"
    /\ val' = DblZero3
    /\ ret' = NoRet
    /\ UNCHANGED aux

\* LargePosition(global_, local_) { from_float3(global_, local_); }
CtorCellOffset ==
    /\ pc = "new"
    /\ \E t \in Rel3Inputs :
        /\ \E r \in from_float3(Zero3, Zero3, OriginOf(t), OffsetOf(t)) :
            /\ global' = r.global
            /\ local' = r.local
            /\ failed' = r.failed
            /\ pc' = NextPc(r.failed)
        /\ origin' = OriginOf(t)
        /\ local_' = OffsetOf(t)
    /\ op' = "ctor_cell_offset"
    /\ val' = DblZero3
    /\ ret' = NoRet
    /\ UNCHANGED aux

\* p.to_double3(): const, returns the world coordinates
ToDouble3 ==
    /\ pc # "aborted"
    /\ ret = NoRet
    /\ ret' = to_double3(global, local)
    /\ UNCHANGED <<global, local, pc, op, failed, val, origin, local_>>
    /\ UNCHANGED aux

Next == FromDouble3 \/ FromFloat3 \/ CtorDouble3 \/ CtorCellOffset \/ ToDouble3

Spec == Init /\ [][Next]_vars

TypeOK ==
    /\ \A i \in Axes : global[i] \in INT_MIN..INT_MAX /\ IsFloat(local[i])
    /\ pc \in {"new", "set", "final", "aborted"}
    /\ failed \in {"none", "range", "large_movement", "int32_cast", "distance"}
    /\ ret # NoRet => \A i \in Axes : IsDouble(ret[i])

(***************************************************************************)
(* Exact (unrounded) arithmetic used to state the properties               *)
(***************************************************************************)
\* a - b as a whole number of units, saturating at +/- Limb
Diff(a, b) ==
    LET dh == a.h - b.h
    IN  IF dh > 1 THEN Limb
        ELSE IF dh < -1 THEN -Limb
        ELSE IF Abs(dh * Limb + (a.l - b.l)) > Limb THEN Sgn(dh) * Limb
        ELSE dh * Limb + (a.l - b.l)

\* the real number g * CELL_SIZE + n
ExactSum(g, n) == Dbl(CellTimesSize(g).h, CellTimesSize(g).l + n)

\* the real number v - g * CELL_SIZE
Residual(v, g) == Diff(v, CellTimesSize(g))

\* |a|
Mag(a) == IF DblIsNeg(a) THEN DblNeg(a) ELSE a

HalfCell == CellU \div 2
MinPrecisionU == (488 * ONE) \div 1000000      \* MIN_PRECISION = 0.000488f, in whole units

WithinWorld(v) ==
    /\ DblLE(ExactSum(INT_MIN, 0), v)
    /\ DblLE(v, ExactSum(INT_MAX, 0))

MadeFromDouble3 == op \in {"from_double3", "ctor_double3"} /\ failed = "none"

(***************************************************************************)
(* C1: the pair produced by from_double3(c) satisfies                      *)
(* global * CELL_SIZE + local = c on every axis, exactly when the offset   *)
(* from the cell centre is a float and within MIN_PRECISION otherwise;     *)
(* to_double3 then returns c under the same condition, and to_double3 of   *)
(* any position is the double nearest to global * CELL_SIZE + local, the   *)
(* sum itself whenever that is a double.                                   *)
(***************************************************************************)
C1_RoundTrip ==
    /\ MadeFromDouble3 =>
        \A i \in Axes :
            /\ IsFloat(Residual(val[i], global[i])) =>
                    ExactSum(global[i], local[i]) = val[i]
            /\ Abs(Diff(ExactSum(global[i], local[i]), val[i])) <= MinPrecisionU
            /\ ret # NoRet =>
                /\ ret[i] = ExactSum(global[i], local[i])
                /\ IsFloat(Residual(val[i], global[i])) => ret[i] = val[i]
                /\ Abs(Diff(ret[i], val[i])) <= MinPrecisionU
    /\ ret # NoRet =>
        \A i \in Axes :
            /\ IsDouble(ret[i])
            /\ IsDouble(ExactSum(global[i], local[i])) =>
                    ret[i] = ExactSum(global[i], local[i])
            /\ 2 * Abs(Diff(ret[i], ExactSum(global[i], local[i])))
                    <= DblSpacing(Mag(ExactSum(global[i], local[i])))

\* a coordinate whose offset is not a float went through from_double3 and back
C1_Witness ==
    /\ MadeFromDouble3
    /\ ret # NoRet
    /\ \E i \in Axes : ~IsFloat(Residual(val[i], global[i])) /\ ret[i] # val[i]
    /\ \E i \in Axes : global[i] = INT_MAX /\ ret[i] = val[i]

C4_LocalWithinHalfCell ==
    MadeFromDouble3 => \A i \in Axes : Abs(local[i]) <= HalfCell

\* an extreme cell on one axis and an offset of exactly half a cell on another
C4_Witness ==
    /\ MadeFromDouble3
    /\ \E i \in Axes : global[i] \in {INT_MIN, INT_MAX}
    /\ \E i \in Axes : Abs(local[i]) = HalfCell

(***************************************************************************)
(* C5: every coordinate in [MIN_COORDINATE, MAX_COORDINATE] is accepted by *)
(* from_double3, its cell index is the rounded quotient without int32      *)
(* overflow, MAX_COORDINATE yields INT_MAX and MIN_COORDINATE INT_MIN.     *)
(***************************************************************************)
C5_RangeFitsInt32 ==
    (op \in {"from_double3", "ctor_double3"} /\ \A i \in Axes : WithinWorld(val[i])) =>
        /\ failed = "none"
        /\ \A i \in Axes :
            /\ global[i] \in INT_MIN..INT_MAX
            /\ Abs(Residual(val[i], global[i])) <= HalfCell
            /\ val[i] = ExactSum(INT_MAX, 0) => global[i] = INT_MAX
            /\ val[i] = ExactSum(INT_MIN, 0) => global[i] = INT_MIN

\* both endpoints of the range were converted in one call
C5_Witness ==
    /\ MadeFromDouble3
    /\ \E i \in Axes : val[i] = ExactSum(INT_MAX, 0) /\ global[i] = INT_MAX
    /\ \E i \in Axes : val[i] = ExactSum(INT_MIN, 0) /\ global[i] = INT_MIN

(***************************************************************************)
(* C6: from_double3 and the double3 constructor, given a component below   *)
(* MIN_COORDINATE or above MAX_COORDINATE, fail the range assertion and    *)
(* leave global and local as they were: nothing is computed from the       *)
(* coordinate.                                                             *)
(***************************************************************************)
OutOfWorld ==
    /\ op \in {"from_double3", "ctor_double3"}
    /\ \E i \in Axes : ~WithinWorld(val[i])

C6_OutOfRangeRejected ==
    /\ [](OutOfWorld => (failed = "range" /\ pc = "aborted"))
    /\ [][OutOfWorld' => (global' = global /\ local' = local)]_vars

\* an object that was already set was given an out-of-range coordinate
C6_Witness ==
    /\ OutOfWorld
    /\ failed = "range"
    /\ global # Zero3
    /\ local # Zero3

(***************************************************************************)
(* C7: from_float3(origin, offset) with |offset| <= 0.75 * CELL_SIZE on    *)
(* every axis, the threshold itself included, keeps the origin cell and    *)
(* stores the offset unchanged.                                            *)
(***************************************************************************)
MadeFromFloat3 == op \in {"from_float3", "ctor_cell_offset"}

C7_WithinThresholdKept ==
    (MadeFromFloat3 /\ \A i \in Axes : Abs(local_[i]) <= 1536 * ONE) =>
        /\ failed = "none"
        /\ global = origin
        /\ local = local_

\* an axis exactly at the threshold, in the last cell
C7_Witness ==
    /\ MadeFromFloat3
    /\ failed = "none"
    /\ \E i \in Axes : Abs(local_[i]) = 1536 * ONE /\ origin[i] = INT_MAX
    /\ global = origin
    /\ local = local_

(***************************************************************************)
(* C8: from_float3(origin, offset) with some axis beyond the threshold     *)
(* (and every axis within 3 * CELL_SIZE) reassigns all three axes: every   *)
(* axis ends in the cell nearest to origin * CELL_SIZE + offset with       *)
(* |local| <= CELL_SIZE/2, and the result denotes that world location.     *)
(***************************************************************************)
BeyondThreshold ==
    /\ MadeFromFloat3
    /\ \A i \in Axes : Abs(local_[i]) <= 6144 * ONE
    /\ \E i \in Axes : Abs(local_[i]) > 1536 * ONE

\* origin * double(CELL_SIZE) + offset as the double arithmetic gives it
World(i) == DblRound(ExactSum(origin[i], local_[i]))

Reassigned ==
    \A i \in Axes :
        /\ Abs(local[i]) <= HalfCell
        /\ Abs(Residual(World(i), global[i])) <= HalfCell
        /\ ExactSum(global[i], local[i]) = World(i)

C8_ReassignsAllAxes == BeyondThreshold => (failed = "none" /\ Reassigned)

(***************************************************************************)
(* C9: the only precondition of from_float3 and of the cell-and-offset     *)
(* constructor is |offset| <= 3 * CELL_SIZE per axis: for every reference  *)
(* cell, INT_MIN and INT_MAX included, such a call fails no assertion.     *)
(***************************************************************************)
C9_OnlyOffsetPrecondition ==
    (MadeFromFloat3 /\ \A i \in Axes : Abs(local_[i]) <= 6144 * ONE) =>
        failed = "none"

(***************************************************************************)
(* C10: from_float3 fails its offset assertion exactly when some offset    *)
(* component exceeds 3 * CELL_SIZE in magnitude (a component of exactly    *)
(* 3 * CELL_SIZE passes it), and a call that fails it leaves global and    *)
(* local as they were.                                                     *)
(***************************************************************************)
OffsetTooLarge ==
    /\ MadeFromFloat3
    /\ \E i \in Axes : Abs(local_[i]) > 6144 * ONE

ReassignedWhenAccepted == (BeyondThreshold /\ failed = "none") => Reassigned

(***************************************************************************)
(* Relative conversion: a built position `p`, its offset from a reference  *)
(* cell, and a second object rebuilt from that offset                      *)
(***************************************************************************)
RefReach == 4       \* reference cells tried on either side of p's cell

PosCells == {INT_MIN, -1, 0, BigCell, INT_MAX - 3, INT_MAX}

\* 11 * 2^-14: an offset finer than a double near the far cells
Fine == (11 * ONE) \div 16384

PosOffsets ==
    {s * n : s \in {-1, 1},
             n \in FloatNear({0, 1000 * ONE, THRESHOLD, 2100 * ONE}, Near)
                        \cup {Fine}}

\* constructor arguments (cell, offset) of the positions studied
PosArgs == OneStudied(PosCells \X PosOffsets, {<<0, 0>>, <<5, THRESHOLD>>})

PosOf(r) == [global |-> r.global, local |-> r.local]

\* the positions LargePosition(cell, offset) and LargePosition(double3) build
Built ==
    {PosOf(r) :
        r \in {x \in UNION ({from_float3(Zero3, Zero3, OriginOf(t), OffsetOf(t)) :
                                t \in PosArgs}
                            \cup {from_double3(Zero3, Zero3, v) :
                                    v \in Double3Examples}) :
                 x.failed = "none"}}

\* can the int32_t x be moved by k cells
CanShift(x, k) == IF k >= 0 THEN x <= INT_MAX - k ELSE x >= INT_MIN - k

RefShifts ==
    OneStudied((-RefReach)..RefReach, {0})
        \cup {<<2, 2, 2>>, <<-2, -2, -2>>, <<2, -2, 1>>, <<3, 0, -3>>}

\* reference cells tried for a position in cell g
RefsOf(g) ==
    {[i \in Axes |-> g[i] + k[i]] :
        k \in {x \in RefShifts : \A i \in Axes : CanShift(g[i], x[i])}}
      \cup {[i \in Axes |-> IF i = a THEN e ELSE g[i]] :
                a \in Axes, e \in {INT_MIN, INT_MAX}}

InitRel ==
    /\ \E b \in Built : global = b.global /\ local = b.local
    /\ pc = "set"
    /\ op = "built"
    /\ failed = "none"
    /\ val = DblZero3
    /\ origin = Zero3
    /\ local_ = Zero3
    /\ ret = NoRet
    /\ local_pos = NoRet
    /\ other = NoPos
    /\ eq = "none"
    /\ eq_rev = "none"
    /\ ne = "none"
    /\ prev = NoPos
    /\ movement = Zero3
    /\ moves = 0
    /\ settled = NoRet

\* relative = p.to_float3(ref)
ToFloat3 ==
    /\ pc = "set"
    /\ \E r \in RefsOf(global) :
        /\ \E out \in to_float3(global, local, r) :
            /\ local_pos' = out.local_pos
            /\ failed' = out.failed
            /\ pc' = IF out.failed = "none" THEN "relative" ELSE "aborted"
        /\ origin' = r
    /\ op' = "to_float3"
    /\ UNCHANGED <<global, local, val, local_, ret>>
    /\ UNCHANGED <<other, eq, eq_rev, ne, prev, movement, moves, settled>>

\* reconstructed.from_float3(ref, relative), on a default-constructed object
Reconstruct ==
    /\ pc = "relative"
    /\ \E r \in from_float3(Zero3, Zero3, origin, local_pos) :
        /\ other' = PosOf(r)
        /\ failed' = r.failed
        /\ pc' = IF r.failed = "none" THEN "rebuilt" ELSE "aborted"
    /\ op' = "from_float3"
    /\ local_' = local_pos
    /\ UNCHANGED <<global, local, val, origin, ret>>
    /\ UNCHANGED <<local_pos, eq, eq_rev, ne, prev, movement, moves, settled>>

NextRel == ToFloat3 \/ Reconstruct

SpecRel == InitRel /\ [][NextRel]_vars

\* the cells of p and of the reference are at most k apart on every axis
CellsWithin(k) ==
    \A i \in Axes :
        /\ ~SubOverflows(global[i], origin[i])
        /\ global[i] - origin[i] \in (-k)..k

\* the real number local + (global - origin) * CELL_SIZE, for cells nearby
ExactOffset(i) == local[i] + (global[i] - origin[i]) * CellU

(***************************************************************************)
(* C11: to_float3(origin) returns local + (global - origin) * CELL_SIZE    *)
(* on every axis, as the nearest float, whenever that value is at most     *)
(* 3 * CELL_SIZE in magnitude; to_float3(global) returns local itself;     *)
(* and the call leaves the position as it was.                             *)
(***************************************************************************)
C11_RelativeOffset ==
    /\ [](   (/\ op = "to_float3"
              /\ CellsWithin(CellsPerLimb - 1)
              /\ \A i \in Axes : Abs(ExactOffset(i)) <= 6144 * ONE)
           => /\ failed = "none"
              /\ \A i \in Axes :
                    /\ IsFloat(local_pos[i])
                    /\ IsFloat(ExactOffset(i)) => local_pos[i] = ExactOffset(i)
                    /\ 2 * Abs(local_pos[i] - ExactOffset(i))
                            <= FloatSpacing(Abs(ExactOffset(i)))
              /\ origin = global => local_pos = local)
    /\ [][op' = "to_float3" => (global' = global /\ local' = local)]_vars

\* an offset from a cell two away had to be rounded, and one was returned as is
C11_Witness ==
    /\ op = "to_float3"
    /\ failed = "none"
    /\ CellsWithin(2)
    /\ \E i \in Axes : global[i] - origin[i] = 2 /\ local_pos[i] # ExactOffset(i)
    /\ \E i \in Axes : global[i] - origin[i] = -2 /\ local_pos[i] = ExactOffset(i)

\* to_double3 of the rebuilt object and of p
RebuiltWorld == to_double3(other.global, other.local)
OwnWorld == to_double3(global, local)

(***************************************************************************)
(* C12: for a built position p and a reference cell r at most 2 cells from *)
(* p.global on every axis, p.to_float3(r) passes its assertion,            *)
(* from_float3(r, p.to_float3(r)) is accepted, and the rebuilt position's  *)
(* to_double3 is within MIN_PRECISION of p's on every axis.                *)
(***************************************************************************)
C12_RoundTripViaReference ==
    (op \in {"to_float3", "from_float3"} /\ CellsWithin(2)) =>
        /\ failed = "none"
        /\ pc = "rebuilt" =>
            \A i \in Axes : Abs(Diff(RebuiltWorld[i], OwnWorld[i])) <= MinPrecisionU

\* the float spacing at 3 * CELL_SIZE (2^-11), which MIN_PRECISION truncates
UlpAtMaxOffset == ONE \div CELL_SIZE

\* where p lies in the world and the rebuilt object is accepted, the two are
\* within 2^-11 of each other
RoundTripWhenAccepted ==
    (/\ op \in {"to_float3", "from_float3"}
     /\ CellsWithin(2)
     /\ failed # "range"
     /\ \A i \in Axes : WithinWorld(ExactSum(global[i], local[i]))) =>
        /\ failed = "none"
        /\ pc = "rebuilt" =>
            \A i \in Axes : Abs(Diff(RebuiltWorld[i], OwnWorld[i])) <= UlpAtMaxOffset

(***************************************************************************)
(* Comparison: two built positions, `p` (global, local) and `other`        *)
(***************************************************************************)
EqCells == {INT_MIN, -1, 0, 1, 2, 3, 4, INT_MAX}

EqOffsets ==
    {0, 52 * ONE, 100 * ONE, 600 * ONE, FloatUp(600 * ONE), 1200 * ONE,
     2048 * ONE, 2100 * ONE, -(848 * ONE), -(1448 * ONE), THRESHOLD, -THRESHOLD}

\* constructor arguments (cell, offset) of the positions compared
EqArgs ==
    {<<s, <<0, 0>>, <<0, 0>>>> : s \in EqCells \X EqOffsets}
        \cup {<<<<0, 0>>, <<c, 100 * ONE>>, <<k, f>>>> :
                c \in {0, 5}, k \in {0, 3}, f \in {0, 1200 * ONE, -(848 * ONE)}}

Compared ==
    {PosOf(r) :
        r \in {x \in UNION {from_float3(Zero3, Zero3, OriginOf(t), OffsetOf(t)) :
                                t \in EqArgs} :
                 x.failed = "none"}}

InitEq ==
    /\ \E a \in Compared : global = a.global /\ local = a.local
    /\ other \in Compared
    /\ pc = "set"
    /\ op = "built"
    /\ failed = "none"
    /\ val = DblZero3
    /\ origin = Zero3
    /\ local_ = Zero3
    /\ ret = NoRet
    /\ local_pos = NoRet
    /\ eq = "none"
    /\ eq_rev = "none"
    /\ ne = "none"
    /\ prev = NoPos
    /\ movement = Zero3
    /\ moves = 0
    /\ settled = NoRet

\* p == other
Equals ==
    /\ eq = "none"
    /\ eq' \in LargeEq(global, local, other.global, other.local)
    /\ UNCHANGED <<global, local, pc, op, failed, val, origin, local_, ret>>
    /\ UNCHANGED <<local_pos, other, eq_rev, ne, prev, movement, moves, settled>>

\* other == p
EqualsReversed ==
    /\ eq_rev = "none"
    /\ eq_rev' \in LargeEq(other.global, other.local, global, local)
    /\ UNCHANGED <<global, local, pc, op, failed, val, origin, local_, ret>>
    /\ UNCHANGED <<local_pos, other, eq, ne, prev, movement, moves, settled>>

\* p != other
NotEquals ==
    /\ ne = "none"
    /\ ne' \in LargeNe(global, local, other.global, other.local)
    /\ UNCHANGED <<global, local, pc, op, failed, val, origin, local_, ret>>
    /\ UNCHANGED <<local_pos, other, eq, eq_rev, prev, movement, moves, settled>>

NextEq == Equals \/ EqualsReversed \/ NotEquals

SpecEq == InitEq /\ [][NextEq]_vars

\* p and other are the same point of the world
SameLocation ==
    \A i \in Axes :
        ExactSum(global[i], local[i]) = ExactSum(other.global[i], other.local[i])

(***************************************************************************)
(* C13: p == other is true exactly when the two positions are the same     *)
(* point of the world (to within 1e-6 per axis), whatever their cells and  *)
(* offsets, and p != other is the negation of p == other.                  *)
(***************************************************************************)
C13_EqualityByLocation ==
    /\ eq # "none" => (eq = "true" <=> SameLocation)
    /\ (eq # "none" /\ ne # "none") => ne = Negated(eq)

\* the half of C13 that holds: the same point compares equal, in any cells
EqualWhenSameLocation == (eq # "none" /\ SameLocation) => eq = "true"

(***************************************************************************)
(* C14: comparing two built positions never fails to_float3's assertion,   *)
(* however far apart their cells are, 3 cells apart included.              *)
(***************************************************************************)
C14_EqualityTotal == eq # "abort" /\ eq_rev # "abort" /\ ne # "abort"

\* the cells of p and other differ by more than 3 on some axis
FarCells ==
    \E i \in Axes :
        \/ SubOverflows(global[i], other.global[i])
        \/ global[i] - other.global[i] \notin -3..3

(***************************************************************************)
(* C15: positions whose cells differ by more than 3 on some axis compare   *)
(* unequal, for every pair of int32 cells, INT_MAX against INT_MIN         *)
(* included, and no relative conversion (hence no assertion) is involved.  *)
(***************************************************************************)
C15_EarlyExit ==
    FarCells =>
        /\ eq \in {"none", "false"}
        /\ eq_rev \in {"none", "false"}
        /\ ne \in {"none", "true"}

\* INT_MAX was compared with INT_MIN, both ways round
C15_Witness ==
    /\ global[1] = INT_MAX
    /\ other.global[1] = INT_MIN
    /\ eq = "false"
    /\ eq_rev = "false"
    /\ ne = "true"

(***************************************************************************)
(* C16: equality is symmetric: when p == other and other == p both return  *)
(* a result, the results are the same.                                     *)
(***************************************************************************)
C16_EqualitySymmetric ==
    (eq \in {"true", "false"} /\ eq_rev \in {"true", "false"}) => eq = eq_rev

(***************************************************************************)
(* C17: an offset returned by to_float3 is at most 3 * CELL_SIZE in        *)
(* magnitude on every axis; an offset beyond that fails the assertion and  *)
(* nothing is returned; and for a built position and a reference cell at   *)
(* most 2 cells away on every axis the assertion never fails.              *)
(***************************************************************************)
C17_HardBound ==
    op = "to_float3" =>
        /\ failed \in {"none", "distance"}
        /\ failed = "none" => \A i \in Axes : Abs(local_pos[i]) <= 6144 * ONE
        /\ failed = "distance" => local_pos = NoRet
        /\ CellsWithin(CellsPerLimb - 1) =>
                (failed = "distance" <=>
                    \E i \in Axes : Abs(FloatRound(ExactOffset(i))) > 6144 * ONE)
        /\ CellsWithin(2) => failed = "none"

\* an offset at the threshold was measured from two cells away, and returned
C17_Witness ==
    /\ op = "to_float3"
    /\ failed = "none"
    /\ CellsWithin(2)
    /\ \E i \in Axes : Abs(local_pos[i]) = 2 * CellU + THRESHOLD

(***************************************************************************)
(* Movement: an object moved step by step through the relative path        *)
(*     current_local = obj.to_float3(obj.global);                          *)
(*     new_local = current_local + movement;                               *)
(*     new_pos.from_float3(obj.global, new_local);  obj = new_pos;         *)
(***************************************************************************)
MaxMoves == 3       \* steps taken by the moving object

\* the float n, for a whole number n; beyond the model's floats at FBig
F(n) == IF n >= FBig \div ONE THEN FBig ELSE n * ONE

\* constructor arguments (cell, offset) of the objects that move
MoveStarts ==
    { <<<<0, 0>>, <<0, 0>>, <<0, 0>>>>,
      <<<<0, F(1000)>>, <<0, F(1000)>>, <<0, F(1000)>>>>,
      <<<<0, F(1024)>>, <<0, 0>>, <<BigCell, -Fine>>>>,
      <<<<INT_MAX, F(1000)>>, <<0, 0>>, <<0, 0>>>> }

\* movements within reach of the relative path
SmallMovements ==
    { <<F(1000), 0, 0>>, <<F(2000), 0, 0>>, <<F(3000), 0, 0>>,
      <<-F(4000), 0, 0>>, <<F(5000), 0, 0>>,
      <<F(400), 0, 0>>, <<-F(400), 0, 0>>,
      <<F(512), 0, 0>>, <<FloatUp(F(512)), 0, 0>>, <<0, Fine, F(536)>>,
      <<0, -F(600), FloatDown(F(1536))>> }

\* the movements of the stress test, every one beyond 3 * CELL_SIZE
LargeMovements ==
    { <<F(10000), 0, 0>>, <<0, -F(15000), 0>>, <<0, 0, F(20000)>>,
      <<-F(8000), F(12000), -F(18000)>>, <<F(25000), -F(5000), F(3000)>> }

Movements == SmallMovements \cup LargeMovements

InitMove ==
    /\ \E t \in MoveStarts :
        \E r \in from_float3(Zero3, Zero3, OriginOf(t), OffsetOf(t)) :
            global = r.global /\ local = r.local /\ r.failed = "none"
    /\ pc = "set"
    /\ op = "built"
    /\ failed = "none"
    /\ val = DblZero3
    /\ origin = Zero3
    /\ local_ = Zero3
    /\ ret = NoRet
    /\ local_pos = NoRet
    /\ other = NoPos
    /\ eq = "none"
    /\ eq_rev = "none"
    /\ ne = "none"
    /\ prev = NoPos
    /\ movement = Zero3
    /\ moves = 0
    /\ settled = NoRet

\* new_local = current_local + movement
NewLocal(cur, m) == [i \in Axes |-> FloatAdd(cur[i], m[i])]

\* one turn of the movement loop
Move ==
    /\ pc = "set"
    /\ moves < MaxMoves
    /\ \E m \in Movements :
        \E cur \in to_float3(global, local, global) :
            /\ cur.failed = "none"
            /\ \E r \in from_float3(Zero3, Zero3, global,
                                     NewLocal(cur.local_pos, m)) :
                /\ global' = IF r.failed = "none" THEN r.global ELSE global
                /\ local' = IF r.failed = "none" THEN r.local ELSE local
                /\ failed' = r.failed
                /\ pc' = IF r.failed = "none" THEN "set" ELSE "aborted"
                /\ settled' = IF r.failed = "none" /\ r.global # global
                              THEN r.local ELSE settled
            /\ local_pos' = cur.local_pos
            /\ local_' = NewLocal(cur.local_pos, m)
            /\ movement' = m
    /\ origin' = global
    /\ prev' = [global |-> global, local |-> local]
    /\ moves' = moves + 1
    /\ op' = "move"
    /\ UNCHANGED <<val, ret, other, eq, eq_rev, ne>>

NextMove == Move

SpecMove == InitMove /\ [][NextMove]_vars

\* to_double3 of the object before its last step
PrevWorld == to_double3(prev.global, prev.local)

\* 1e-3, the tolerance of the movement tests, in whole units
MoveTolerance == (1000 * ONE) \div 1000000

\* the last step fed from_float3 an offset within 3 * CELL_SIZE
FedWithinBound == moves > 0 /\ \A i \in Axes : Abs(local_[i]) <= 6144 * ONE

\* the object's world position changed by the movement, to within tol
MovedBy(tol) ==
    \A i \in Axes :
        Abs(Diff(OwnWorld[i], PrevWorld[i]) - movement[i]) <= tol

(***************************************************************************)
(* C18: a step of the movement loop whose fed offset is within             *)
(* 3 * CELL_SIZE on every axis is accepted and changes to_double3 by the   *)
(* movement to within 1e-3 on every axis, whether or not the cell changes. *)
(***************************************************************************)
C18_IncrementalMovement ==
    FedWithinBound => (failed = "none" /\ MovedBy(MoveTolerance))

\* away from the ends of the world the movement of C18 holds
MovedWhenAccepted ==
    (FedWithinBound /\ failed # "range") =>
        (failed = "none" /\ MovedBy(MoveTolerance))

\* TYPICAL_PRECISION = 0.000244f, in whole units
TypicalPrecisionU == (244 * ONE) \div 1000000

(***************************************************************************)
(* C19: a step of the movement loop whose movement is one of the large     *)
(* ones (10000 to 25000 on some axis, beyond 3 * CELL_SIZE) completes      *)
(* without failing an assertion and changes to_double3 by the movement to  *)
(* within TYPICAL_PRECISION.                                               *)
(***************************************************************************)
C19_LargeMovements ==
    (moves > 0 /\ movement \in LargeMovements) =>
        (failed = "none" /\ MovedBy(TypicalPrecisionU))

\* what the code does with a large movement: it fails the offset assertion
LargeMovementRejected ==
    (moves > 0 /\ movement \in LargeMovements) =>
        /\ failed = "large_movement"
        /\ global = prev.global
        /\ local = prev.local

(***************************************************************************)
(* C20: a step of the movement loop changes the cell only if the fed       *)
(* offset exceeds THRESHOLD on some axis; after a step that changed the    *)
(* cell, the next change of cell comes only once the object is more than   *)
(* 0.25 * CELL_SIZE from where that step left it, on some axis; and a      *)
(* step that keeps every axis less than 0.25 * CELL_SIZE beyond the        *)
(* natural boundary keeps the cell.                                        *)
(***************************************************************************)
C20_Hysteresis ==
    /\ [][(moves' = moves + 1 /\ global' # global) =>
              \E i \in Axes : Abs(local_'[i]) > (CellU * 3) \div 4]_vars
    /\ [][(moves' = moves + 1 /\ global' # global /\ settled # NoRet) =>
              \E i \in Axes : Abs(local_'[i] - settled[i]) > CellU \div 4]_vars
    /\ [][(moves' = moves + 1 /\
              \A i \in Axes : Abs(local_'[i]) < CellU \div 2 + CellU \div 4) =>
              global' = global]_vars

\* an object at a natural boundary went 400 one way and back and kept its cell
C20_Witness ==
    /\ moves = MaxMoves
    /\ failed = "none"
    /\ settled = NoRet
    /\ Abs(movement[1]) = F(400)
    /\ prev.local[1] = F(1024) - F(400)
    /\ local[1] = F(1024)

(***************************************************************************)
(* C21: whatever constructors and from_* calls an object has been through, *)
(* its stored offset is at most CELL_SIZE in magnitude on every axis.      *)
(***************************************************************************)
C21_LocalWithinCell == \A i \in Axes : Abs(local[i]) <= 2048 * ONE

\* from_float3 left the largest offset it keeps, 0.75 * CELL_SIZE, on one axis
C21_Witness ==
    /\ failed = "none"
    /\ op = "from_float3"
    /\ \E i \in Axes : Abs(local[i]) = (CellU * 3) \div 4

(***************************************************************************)
(* C22: the default constructor gives cell (0,0,0) and offset (0,0,0);     *)
(* LargePosition(g, l) gives what from_float3(g, l) gives on a new object, *)
(* fields and failed assertion alike, so it keeps (g, l) as given exactly  *)
(* when every |l[i]| <= THRESHOLD and re-cells otherwise.                  *)
(***************************************************************************)
C22_ConstructorsAsFromFloat3 ==
    /\ op = "ctor_default" => (global = Zero3 /\ local = Zero3)
    /\ op = "ctor_cell_offset" =>
        /\ [global |-> global, local |-> local, failed |-> failed]
                \in from_float3(Zero3, Zero3, origin, local_)
        /\ failed = "none" =>
            ((global = origin /\ local = local_)
                <=> \A i \in Axes : Abs(local_[i]) <= 1536 * ONE)

\* the constructor was given an offset beyond the threshold and re-celled it
C22_Witness ==
    /\ op = "ctor_cell_offset"
    /\ failed = "none"
    /\ global # origin
    /\ \E i \in Axes : local_[i] = 2100 * ONE /\ local[i] = 52 * ONE

\* on axis i the position is more than 3 * CELL_SIZE from the centre of the
\* reference cell, as real numbers
TooFar(i) ==
    \/ SubOverflows(global[i], origin[i])
    \/ global[i] - origin[i] >= CellsPerLimb
    \/ global[i] - origin[i] <= -CellsPerLimb
    \/ Abs(ExactOffset(i)) > 6144 * ONE

(***************************************************************************)
(* C23: whenever the position is more than 3 * CELL_SIZE from the centre   *)
(* of the reference cell on some axis, to_float3 fails its assertion and   *)
(* returns no offset, for every pair of int32 cells, those whose           *)
(* difference does not fit in int32 included.                              *)
(***************************************************************************)
C23_FarReferenceReported ==
    (op = "to_float3" /\ \E i \in Axes : TooFar(i)) =>
        (failed = "distance" /\ local_pos = NoRet)

\* the same, for cell differences that fit in int32 and distances beyond the
\* bound by at least the float spacing there: this much holds
FarReferenceReportedInt32 ==
    (/\ op = "to_float3"
     /\ \A i \in Axes : ~SubOverflows(global[i], origin[i])
     /\ \E i \in Axes :
            \/ global[i] - origin[i] >= CellsPerLimb
            \/ global[i] - origin[i] <= -CellsPerLimb
            \/ Abs(ExactOffset(i)) >= 6144 * ONE + UlpAtMaxOffset) =>
        (failed = "distance" /\ local_pos = NoRet)

(***************************************************************************)
(* C24: from_float3(p.global, p.local) on a built position p gives p       *)
(* again, fields identical (a stored offset is within THRESHOLD already),  *)
(* and a from_float3 that changes the cell moves it by at most 3 cells on  *)
(* every axis.                                                             *)
(***************************************************************************)
C24_RenormaliseIdempotent ==
    /\ \A i \in Axes : Abs(local[i]) <= 1536 * ONE
    /\ (op = "from_float3" /\ origin = global) =>
        /\ failed = "none"
        /\ other = [global |-> global, local |-> local]
    /\ (op = "from_float3" /\ failed = "none" /\ other.global # origin) =>
        \A i \in Axes :
            /\ ~SubOverflows(other.global[i], origin[i])
            /\ other.global[i] - origin[i] \in -3..3

\* a position with an offset at the threshold was fed back to from_float3
C24_Witness ==
    /\ op = "from_float3"
    /\ origin = global
    /\ failed = "none"
    /\ \E i \in Axes : Abs(local[i]) = (CellU * 3) \div 4

\* from_float3 moved the cell by 3
CellMovedByThree ==
    /\ op = "from_float3"
    /\ failed = "none"
    /\ \E i \in Axes : other.global[i] - origin[i] = 3

====
